---- MODULE Spec2Model ----
(***************************************************************************)
(* Voice resolution and speech I/O utilities (web/src/lib/utils.ts):       *)
(* the voice catalog loader (getVoices), the voice selector (pickVoice),   *)
(* and the speech output controller (speak / stopSpeak / canSpeak) on top  *)
(* of the browser's speechSynthesis queue.                                 *)
(*                                                                         *)
(* Spec        the speech output controller over the catalog loader, with  *)
(*             the platform (voice list, change notification, poll timer,  *)
(*             utterance queue) as the environment.                        *)
(* SpecVoices  the catalog loader under direct getVoices() callers.        *)
(* SpecPick    pickVoice applied to bounded catalogs, hints, preferences.  *)
(* SpecNorm    normalizeLang / langLabelToTag applied to labels and tags.  *)
(* SpecPlay    the speech output controller with the catalog loaded, on a  *)
(*             platform that delivers its end and error events (fair).     *)
(* SpecUnlock  ensureAudioUnlocked() around speak() calls.                 *)
(* SpecPure    pickVoice and normalizeLang called while the controller and *)
(*             the catalog load are at work.                               *)
(* SpecRec     the recognizer handles of createRecognizer under their      *)
(*             callers and the platform's result, end and error events.    *)
(***************************************************************************)
EXTENDS Integers, Sequences, FiniteSets, TLC

VARIABLES
    \* ---- platform (window.speechSynthesis) ----
    hasSynth,       \* "speechSynthesis" in window
    platVoices,     \* what synth.getVoices() returns now
    listening,      \* the onChange listener is registered for "voiceschanged"
    pollOn,         \* the setInterval poll timer is running
    queue,          \* the platform's utterance queue, head = being spoken
    \* ---- module state of utils.ts ----
    cachedVoices,   \* <<>> for null, <<list>> for an array
    voicesPromise,  \* [st, val]: st "null" | "pending" | "resolved" | "rejected"
    attempts,       \* the poll closure's counter
    \* ---- async control state ----
    sess,           \* the speak() invocations, by call order
    nSess,          \* number of speak() invocations that passed the guards
    waiters,        \* speak() invocations awaiting the pending voicesPromise
    microQ,         \* ready continuations (microtasks), FIFO
    callers,        \* direct getVoices() callers, by call order
    nCalls,
    \* ---- observation ----
    listenerRegs,   \* addEventListener("voiceschanged") calls so far
    timersStarted,  \* setInterval calls so far
    last,           \* the most recent step, when it was a speak() call: [op, arg]
    \* ---- pickVoice harness ----
    pvVoices, pvHint, pvGender, pvResult, pvDone,
    \* ---- normalizeLang harness ----
    nmInput,        \* the argument, a JavaScript value
    nmOp,           \* which export was called
    nmResult,       \* what it returned
    nmDone,
    \* ---- speech recognition (createRecognizer) ----
    rec,            \* per handle: the platform recognizer and the wrapper's slots
    nCaps,          \* captures the platform has begun so far
    recLast         \* the most recent recognizer step and the callbacks it invoked

speechVars == <<hasSynth, platVoices, listening, pollOn, queue, cachedVoices,
                voicesPromise, attempts, sess, nSess, waiters, microQ, callers,
                nCalls, listenerRegs, timersStarted, last>>
pickVars == <<pvVoices, pvHint, pvGender, pvResult, pvDone>>
normVars == <<nmInput, nmOp, nmResult, nmDone>>
recVars == <<rec, nCaps, recLast>>
sideVars == <<pickVars, normVars, recVars>>
vars == <<speechVars, sideVars>>

(***************************************************************************)
(* Bounds                                                                  *)
(***************************************************************************)
MaxSpeak == 2      \* speak() invocations that reach the catalog
MaxCalls == 2      \* direct getVoices() callers
MaxCatalog == 2    \* catalog length handed to pickVoice
MaxCaptures == 2   \* recognition captures begun over all handles

(***************************************************************************)
(* Strings, as JavaScript computes on them                                 *)
(***************************************************************************)
UpperChars == "ABCDEFGHIJKLMNOPQRSTUVWXYZ"
LowerChars == "abcdefghijklmnopqrstuvwxyz"
Digits == "0123456789"

CharAt(s, i) == SubSeq(s, i, i)

InStr(c, s) == \E i \in 1..Len(s) : CharAt(s, i) = c

LowerChar(c) ==
    IF InStr(c, UpperChars)
    THEN CharAt(LowerChars, CHOOSE i \in 1..Len(UpperChars) : CharAt(UpperChars, i) = c)
    ELSE c

RECURSIVE toLowerCase(_)
toLowerCase(s) ==
    IF s = "" THEN ""
    ELSE LowerChar(CharAt(s, 1)) \o toLowerCase(SubSeq(s, 2, Len(s)))

startsWith(s, p) == Len(p) <= Len(s) /\ SubSeq(s, 1, Len(p)) = p

includes(s, sub) ==
    \E i \in 1..(Len(s) - Len(sub) + 1) : SubSeq(s, i, i + Len(sub) - 1) = sub

\* s.split(sep)[0]: the part before the first separator, all of s when none.
SplitFirst(s, sep) ==
    IF InStr(sep, s)
    THEN LET i == CHOOSE k \in 1..Len(s) :
                     /\ CharAt(s, k) = sep
                     /\ \A j \in 1..(k - 1) : CharAt(s, j) # sep
         IN SubSeq(s, 1, i - 1)
    ELSE s

\* \w of a JavaScript regular expression.
IsWordChar(c) == InStr(c, UpperChars) \/ InStr(c, LowerChars) \/ InStr(c, Digits) \/ c = "_"

\* /\bw\b/.test(s): w as a whole word of s.
HasWord(s, w) ==
    \E i \in 1..(Len(s) - Len(w) + 1) :
        /\ SubSeq(s, i, i + Len(w) - 1) = w
        /\ (i = 1 \/ ~IsWordChar(CharAt(s, i - 1)))
        /\ (i + Len(w) - 1 = Len(s) \/ ~IsWordChar(CharAt(s, i + Len(w))))

(***************************************************************************)
(* Voice selection                                                         *)
(***************************************************************************)
None == <<>>
Some(x) == <<x>>

FemaleNames == {"salli", "susan", "victoria", "zira", "nicky", "helena",
                "natasha", "samantha", "eva", "female"}
MaleNames == {"daniel", "alex", "fred", "george", "thomas", "xander", "male"}

inferGender(v) ==
    LET n == toLowerCase(v.name \o " " \o v.voiceURI) IN
    IF HasWord(n, "f") \/ HasWord(n, "female") \/ \E w \in FemaleNames : includes(n, w)
    THEN "female"
    ELSE IF HasWord(n, "m") \/ HasWord(n, "male") \/ \E w \in MaleNames : includes(n, w)
    THEN "male"
    ELSE "auto"

startsWithLangTag(voiceLang, wanted) ==
    IF wanted = "" THEN TRUE
    ELSE LET v == toLowerCase(voiceLang)
             w == toLowerCase(wanted)
         IN v = w \/ startsWith(v, SplitFirst(w, "-") \o "-")

\* The gender-then-first rule applied to a non-empty filtered list:
\* list.find(v => inferGender(v) === gender) when a gender is asked, else list[0].
GenderThenFirst(list, gender) ==
    LET g == SelectSeq(list, LAMBDA v : inferGender(v) = gender)
    IN IF gender # "auto" /\ g # <<>> THEN Some(g[1]) ELSE Some(list[1])

pickVoiceNoLastResort(voices, langHint, gender) ==
    LET wanted == IF langHint # "" THEN langHint ELSE "en-US"
        byLang == SelectSeq(voices, LAMBDA v : startsWithLangTag(v.lang, wanted))
        en == SelectSeq(voices, LAMBDA v : startsWithLangTag(v.lang, "en-US"))
    IN IF byLang # <<>> THEN GenderThenFirst(byLang, gender)
       ELSE IF en # <<>> THEN GenderThenFirst(en, gender)
       ELSE None

pickVoice(voices, langHint, gender) ==
    LET wanted == IF langHint # "" THEN langHint ELSE "en-US"
        byLang == SelectSeq(voices, LAMBDA v : startsWithLangTag(v.lang, wanted))
        en == SelectSeq(voices, LAMBDA v : startsWithLangTag(v.lang, "en-US"))
    IN IF byLang # <<>> THEN GenderThenFirst(byLang, gender)
       ELSE IF en # <<>> THEN GenderThenFirst(en, gender)
       ELSE IF voices # <<>> THEN Some(voices[1])
       ELSE None

(***************************************************************************)
(* pickVoice harness: the inputs are drawn in PickInit, PickVoiceCall      *)
(* applies the function.                                                   *)
(***************************************************************************)
Voice(n, l) == [name |-> n, voiceURI |-> n, lang |-> l]

PickVoices == {Voice("Zira", "en-US"), Voice("Alex", "en-GB"),
               Voice("Lekha", "ta"), Voice("Vani Female", "ta-IN"),
               Voice("Thomas", "fr-FR"), Voice("Kyoko", "ja-JP"),
               Voice("Daniel", "en")}
PickHints == {"", "ta-IN", "fr", "EN-gb", "de-DE"}
Genders == {"auto", "male", "female"}

RECURSIVE SeqsUpTo(_, _)
SeqsUpTo(S, n) ==
    IF n = 0 THEN {<<>>}
    ELSE LET shorter == SeqsUpTo(S, n - 1)
         IN shorter \cup {Append(s, x) : s \in shorter, x \in S}

PickCatalogs == SeqsUpTo(PickVoices, MaxCatalog)


(***************************************************************************)
(* Catalog loader: getVoices()                                             *)
(***************************************************************************)
MaxAttempts == 10
SessIds == 1..MaxSpeak
CallIds == 1..MaxCalls

ZiraList == <<Voice("Zira", "en-US")>>
TamilList == <<Voice("Alex", "en-GB"), Voice("Vani Female", "ta-IN")>>
VoiceLists == {<<>>, ZiraList, TamilList}
SpeechVoiceLists == {<<>>, TamilList}

NullPromise == [st |-> "null", val |-> <<>>]
Resolved(v) == [st |-> "resolved", val |-> v]

\* if (cachedVoices && cachedVoices.length)
CacheHit == cachedVoices # None /\ cachedVoices[1] # <<>>

\* if (voicesPromise) return voicesPromise
ShareInFlightNever == FALSE
ShareInFlightPendingOnly == voicesPromise.st = "pending"
ShareInFlight == voicesPromise.st # "null"

\* if (v && v.length) in tryResolve
HasVoicesNever(v) == FALSE
HasVoices(v) == v # <<>>

\* attempts > 10, after attempts += 1
PollGiveUp(a) == a > MaxAttempts

\* Promise reactions and microtasks run first in, first out.
EnqueueFront(q, x) == <<x>> \o q
Enqueue(q, x) == Append(q, x)

\* resolve(v) of the voicesPromise executor: settles the promise once, queues the
\* continuation of every speak() awaiting it, and settles the direct callers.
ResolveVoices(v) ==
    IF voicesPromise.st = "pending"
    THEN /\ voicesPromise' = Resolved(v)
         /\ microQ' = microQ \o [i \in 1..Len(waiters) |-> [sid |-> waiters[i], val |-> v]]
         /\ waiters' = <<>>
         /\ callers' = [c \in CallIds |->
                          IF callers[c].st = "pending"
                          THEN [callers[c] EXCEPT !.st = "resolved", !.val = v]
                          ELSE callers[c]]
    ELSE UNCHANGED <<voicesPromise, microQ, waiters, callers>>

\* The body of getVoices() up to its return: the cache check, the shared promise,
\* and otherwise the executor of the new promise, run synchronously.
GetVoicesBody ==
    IF CacheHit \/ ShareInFlight
    THEN UNCHANGED <<cachedVoices, voicesPromise, listening, pollOn, attempts,
                     listenerRegs, timersStarted>>
    ELSE IF ~hasSynth
    THEN \* synth is undefined: synth.getVoices() throws inside the executor
         /\ voicesPromise' = [st |-> "rejected", val |-> <<>>]
         /\ UNCHANGED <<cachedVoices, listening, pollOn, attempts, listenerRegs,
                        timersStarted>>
    ELSE IF HasVoices(platVoices)
    THEN /\ cachedVoices' = Some(platVoices)
         /\ voicesPromise' = Resolved(platVoices)
         /\ UNCHANGED <<listening, pollOn, attempts, listenerRegs, timersStarted>>
    ELSE /\ voicesPromise' = [st |-> "pending", val |-> <<>>]
         /\ listening' = TRUE
         /\ listenerRegs' = listenerRegs + 1
         /\ pollOn' = TRUE
         /\ timersStarted' = timersStarted + 1
         /\ attempts' = 0
         /\ UNCHANGED cachedVoices

\* The promise getVoices() returns.
GetVoicesReturn == IF CacheHit THEN Resolved(cachedVoices[1]) ELSE voicesPromise'

Other == [op |-> "other", arg |-> "", res |-> ""]

\* A direct getVoices() call by UI code; `waited` records that the promise it got
\* was still pending.
GetVoicesCall ==
    /\ nCalls < MaxCalls
    /\ GetVoicesBody
    /\ nCalls' = nCalls + 1
    /\ callers' = [callers EXCEPT ![nCalls + 1] =
                     [st |-> GetVoicesReturn.st, val |-> GetVoicesReturn.val,
                      waited |-> GetVoicesReturn.st = "pending"]]
    /\ last' = Other
    /\ UNCHANGED <<hasSynth, platVoices, queue, sess, nSess, waiters, microQ, sideVars>>

\* The "voiceschanged" event: the platform fires it; onChange runs when registered.
VoicesChanged ==
    /\ hasSynth
    /\ microQ = <<>>
    /\ last' = Other
    /\ IF listening /\ HasVoices(platVoices)
       THEN /\ cachedVoices' = Some(platVoices)
            /\ ResolveVoices(platVoices)
            /\ listening' = FALSE
       ELSE UNCHANGED <<cachedVoices, voicesPromise, microQ, waiters, callers, listening>>
    /\ UNCHANGED <<hasSynth, platVoices, pollOn, queue, attempts, sess, nSess, nCalls,
                   listenerRegs, timersStarted, sideVars>>

\* One tick of the setInterval(..., 250) poll.
Poll ==
    /\ pollOn
    /\ microQ = <<>>
    /\ attempts' = attempts + 1
    /\ last' = Other
    /\ IF HasVoices(platVoices)
       THEN /\ cachedVoices' = Some(platVoices)
            /\ ResolveVoices(platVoices)
            /\ pollOn' = FALSE
            /\ listening' = FALSE
       ELSE IF PollGiveUp(attempts')
       THEN /\ pollOn' = FALSE
            /\ listening' = FALSE
            /\ IF cachedVoices = None
               THEN cachedVoices' = Some(<<>>) /\ ResolveVoices(<<>>)
               ELSE UNCHANGED <<cachedVoices, voicesPromise, microQ, waiters, callers>>
       ELSE UNCHANGED <<cachedVoices, voicesPromise, microQ, waiters, callers,
                        pollOn, listening>>
    /\ UNCHANGED <<hasSynth, platVoices, queue, sess, nSess, nCalls, listenerRegs,
                   timersStarted, sideVars>>

\* The platform's voice list changes (voices arrive, are replaced, or go away).
PlatformSetVoices(lists) ==
    /\ hasSynth
    /\ \E v \in lists \ {platVoices} : platVoices' = v
    /\ last' = Other
    /\ UNCHANGED <<hasSynth, listening, pollOn, queue, cachedVoices, voicesPromise,
                   attempts, sess, nSess, waiters, microQ, callers, nCalls,
                   listenerRegs, timersStarted, sideVars>>

(***************************************************************************)
(* Speech output: speak(), stopSpeak(), canSpeak()                         *)
(***************************************************************************)
Whitespace == {" ", "\t", "\n"}

RECURSIVE trimStart(_)
trimStart(s) ==
    IF s # "" /\ CharAt(s, 1) \in Whitespace THEN trimStart(SubSeq(s, 2, Len(s))) ELSE s

RECURSIVE trimEnd(_)
trimEnd(s) ==
    IF s # "" /\ CharAt(s, Len(s)) \in Whitespace
    THEN trimEnd(SubSeq(s, 1, Len(s) - 1))
    ELSE s

trim(s) == trimEnd(trimStart(s))

SpeakRequests ==
    {[text |-> "", lang |-> "", gender |-> "auto"],
     [text |-> "  ", lang |-> "ta-IN", gender |-> "female"],
     [text |-> "hi", lang |-> "ta-IN", gender |-> "female"]}

\* superseded: a later speak() was called while this one awaited the catalog;
\* stopSeen: stop() was called while this one was unfinished.
IdleSession == [st |-> "idle", outcome |-> "none", superseded |-> FALSE,
                stopSeen |-> FALSE, lang |-> "", gender |-> "auto"]

\* canSpeak()
canSpeak == hasSynth

\* createRecognizer(): null when the platform has no SpeechRecognition constructor.
createRecognizer(SpeechRec) == IF SpeechRec = "absent" THEN "null" ELSE "handle"

\* The two early returns of speak(): no capability, or nothing to say.
SpeakEarlyReturnNoTrim(text) == ~canSpeak \/ text = ""
SpeakEarlyReturn(text) == ~canSpeak \/ text = "" \/ trim(text) = ""

\* utter.onend = () => resolve(); utter.onerror = () => resolve()
onerrorRejects == "rejected"
onendIgnored == "awaitEnd"
onend == "resolved"
onerror == "resolved"

UtterHandler(ev) == IF ev = "end" THEN onend ELSE onerror

Queued == {queue[i].sid : i \in DOMAIN queue}
Unfinished == {s \in SessIds : sess[s].st \in {"awaitVoices", "awaitEnd"}}

\* window.speechSynthesis.cancel(): every queued utterance is dropped and the
\* platform reports it to the utterance (ev: "error" with interrupted/canceled, or
\* "end" on engines that end a cancelled utterance).
CancelledBy(ev, ss) ==
    [x \in SessIds |->
        IF x \in Queued
        THEN [ss[x] EXCEPT !.st = UtterHandler(ev), !.outcome = "cancelled"]
        ELSE ss[x]]

\* speak(request)
Speak ==
    \E req \in SpeakRequests :
        IF SpeakEarlyReturn(req.text)
        THEN /\ last' = [op |-> "speak", arg |-> req.text, res |-> "resolved"]
             /\ UNCHANGED <<hasSynth, platVoices, listening, pollOn, queue, cachedVoices,
                            voicesPromise, attempts, sess, nSess, waiters, microQ,
                            callers, nCalls, listenerRegs, timersStarted, sideVars>>
        ELSE /\ nSess < MaxSpeak
             /\ nSess' = nSess + 1
             /\ queue' = <<>>                                   \* stopSpeak()
             /\ GetVoicesBody                                    \* getVoices()
             /\ \E ev \in {"end", "error"} :
                  LET s == nSess + 1
                      p == GetVoicesReturn
                      me == [st |-> IF p.st = "rejected" THEN "rejected" ELSE "awaitVoices",
                             outcome |-> "none", superseded |-> FALSE, stopSeen |-> FALSE,
                             lang |-> req.lang, gender |-> req.gender]
                      old == [x \in SessIds |->
                                IF sess[x].st = "awaitVoices"
                                THEN [sess[x] EXCEPT !.superseded = TRUE]
                                ELSE sess[x]]
                  IN /\ sess' = [CancelledBy(ev, old) EXCEPT ![s] = me]
                     /\ microQ' = IF p.st = "resolved"
                                  THEN Enqueue(microQ, [sid |-> s, val |-> p.val])
                                  ELSE microQ
                     /\ waiters' = IF p.st = "pending" THEN Enqueue(waiters, s) ELSE waiters
             /\ last' = [op |-> "speak", arg |-> req.text, res |-> "pending"]
             /\ UNCHANGED <<hasSynth, platVoices, callers, nCalls, sideVars>>

\* The continuation of speak() after `await getVoices()`: pick the voice, build the
\* utterance and hand it to the platform.
SpeakResume ==
    /\ microQ # <<>>
    /\ LET m == Head(microQ) IN
         /\ queue' = Append(queue, [sid |-> m.sid,
                                    voice |-> pickVoice(m.val, sess[m.sid].lang,
                                                        sess[m.sid].gender)])
         /\ sess' = [sess EXCEPT ![m.sid].st = "awaitEnd"]
    /\ microQ' = Tail(microQ)
    /\ last' = Other
    /\ UNCHANGED <<hasSynth, platVoices, listening, pollOn, cachedVoices, voicesPromise,
                   attempts, nSess, waiters, callers, nCalls, listenerRegs,
                   timersStarted, sideVars>>

\* stopSpeak()
Stop ==
    /\ \E ev \in {"end", "error"} :
         LET seen == [x \in SessIds |->
                        IF x \in Unfinished THEN [sess[x] EXCEPT !.stopSeen = TRUE]
                        ELSE sess[x]]
         IN IF canSpeak
            THEN queue' = <<>> /\ sess' = CancelledBy(ev, seen)
            ELSE UNCHANGED <<queue, sess>>
    /\ last' = Other
    /\ UNCHANGED <<hasSynth, platVoices, listening, pollOn, cachedVoices, voicesPromise,
                   attempts, nSess, waiters, microQ, callers, nCalls, listenerRegs,
                   timersStarted, sideVars>>

\* The platform finishes the utterance at the head of its queue.
PlaybackEnd ==
    /\ queue # <<>>
    /\ microQ = <<>>
    /\ sess' = [sess EXCEPT ![Head(queue).sid].st = UtterHandler("end"),
                            ![Head(queue).sid].outcome = "completed"]
    /\ queue' = Tail(queue)
    /\ last' = Other
    /\ UNCHANGED <<hasSynth, platVoices, listening, pollOn, cachedVoices, voicesPromise,
                   attempts, nSess, waiters, microQ, callers, nCalls, listenerRegs,
                   timersStarted, sideVars>>

\* The platform fails the utterance at the head of its queue.
PlaybackError ==
    /\ queue # <<>>
    /\ microQ = <<>>
    /\ sess' = [sess EXCEPT ![Head(queue).sid].st = UtterHandler("error"),
                            ![Head(queue).sid].outcome = "errored"]
    /\ queue' = Tail(queue)
    /\ last' = Other
    /\ UNCHANGED <<hasSynth, platVoices, listening, pollOn, cachedVoices, voicesPromise,
                   attempts, nSess, waiters, microQ, callers, nCalls, listenerRegs,
                   timersStarted, sideVars>>

\* The utterance of ensureAudioUnlocked(): new SpeechSynthesisUtterance(" "), with
\* no handlers and no speak() session behind it.
BlankUtterance == [sid |-> 0, voice |-> None]

\* synth.speak(u); synth.cancel();
UnlockQueueNoCancel(q) == Append(q, BlankUtterance)
UnlockQueue(q) == SubSeq(Append(q, BlankUtterance), 1, 0)

\* ensureAudioUnlocked(): the body runs inside try / catch, so the promise of the
\* async function is always fulfilled.
EnsureAudioUnlocked ==
    /\ \E ev \in {"end", "error"} :
         IF canSpeak
         THEN queue' = UnlockQueue(queue) /\ sess' = CancelledBy(ev, sess)
         ELSE UNCHANGED <<queue, sess>>
    /\ last' = [op |-> "unlock", arg |-> "", res |-> "resolved"]
    /\ UNCHANGED <<hasSynth, platVoices, listening, pollOn, cachedVoices, voicesPromise,
                   attempts, nSess, waiters, microQ, callers, nCalls, listenerRegs,
                   timersStarted, sideVars>>

(***************************************************************************)
(* Language labels and tags                                                *)
(***************************************************************************)
\* JavaScript values that reach or leave normalizeLang: undefined (or null),
\* a string, or a member inherited from Object.prototype.
Undefined == [kind |-> "undefined", val |-> ""]
Str(s) == [kind |-> "string", val |-> s]
Inherited(k) == [kind |-> "object", val |-> k]

Truthy(v) == v.kind = "object" \/ (v.kind = "string" /\ v.val # "")

LANG_TO_TAG ==
    ("auto" :> "") @@ ("english" :> "en-US") @@ ("hindi" :> "hi-IN") @@
    ("tamil" :> "ta-IN") @@ ("telugu" :> "te-IN") @@ ("malayalam" :> "ml-IN") @@
    ("kannada" :> "kn-IN") @@ ("bengali" :> "bn-IN") @@ ("gujarati" :> "gu-IN") @@
    ("marathi" :> "mr-IN") @@ ("urdu" :> "ur-PK") @@ ("arabic" :> "ar-SA") @@
    ("french" :> "fr-FR") @@ ("german" :> "de-DE") @@ ("spanish" :> "es-ES") @@
    ("italian" :> "it-IT") @@ ("chinese" :> "zh-CN") @@ ("japanese" :> "ja-JP") @@
    ("korean" :> "ko-KR") @@ ("russian" :> "ru-RU") @@ ("turkish" :> "tr-TR") @@
    ("portuguese" :> "pt-BR")

\* The property names every object literal inherits from Object.prototype.
ObjectPrototypeKeys ==
    {"constructor", "__proto__", "hasOwnProperty", "isPrototypeOf",
     "propertyIsEnumerable", "toLocaleString", "toString", "valueOf",
     "__defineGetter__", "__defineSetter__", "__lookupGetter__", "__lookupSetter__"}

\* LANG_TO_TAG[key]: own entries first, then the prototype chain.
Lookup(key) ==
    IF key \in DOMAIN LANG_TO_TAG THEN Str(LANG_TO_TAG[key])
    ELSE IF key \in ObjectPrototypeKeys THEN Inherited(key)
    ELSE Undefined

AllIn(s, chars) == \A i \in 1..Len(s) : InStr(CharAt(s, i), chars)

\* /^[a-z]{2,3}(-[A-Z]{2})?$/.test(s)
IsTagShape(s) ==
    \/ Len(s) \in {2, 3} /\ AllIn(s, LowerChars)
    \/ /\ Len(s) \in {5, 6}
       /\ AllIn(SubSeq(s, 1, Len(s) - 3), LowerChars)
       /\ CharAt(s, Len(s) - 2) = "-"
       /\ AllIn(SubSeq(s, Len(s) - 1, Len(s)), UpperChars)

NormKeyNoTrim(s) == toLowerCase(s)

\* String(input).trim().toLowerCase()
NormKey(s) == toLowerCase(trim(s))

normalizeLangOwnEntry(input) ==
    IF ~Truthy(input) THEN Undefined
    ELSE LET key == NormKey(input.val) IN
         IF key \in DOMAIN LANG_TO_TAG THEN Str(LANG_TO_TAG[key])
         ELSE IF IsTagShape(key) THEN input
         ELSE Undefined

normalizeLang(input) ==
    IF ~Truthy(input) THEN Undefined
    ELSE LET key == NormKey(input.val) IN
         IF key = "auto" THEN Undefined
         ELSE IF Truthy(Lookup(key)) THEN Lookup(key)
         ELSE IF IsTagShape(key) THEN input
         ELSE Undefined

langLabelToTag(label) ==
    IF ~Truthy(label) THEN Undefined ELSE normalizeLang(label)

NormLabels ==
    {"", "auto", " Auto ", "AUTO", "\tauto\n", "Auto",
     "tamil", " Tamil ", "ENGLISH", "english", "French", " urdu", "Portuguese ",
     "hindi", "JAPANESE",
     "fr", "fr-FR", "ta-IN", "en-US", "eng", "fil-PH", "FR", " fr ", "fr-fr",
     "Fr-FR", "fr-F", "fr_FR", "f", "frfr", "e1", "fr-FRA",
     "not-a-lang!!", "klingon", "tamil!", "ta mil", "  ",
     "constructor", "__proto__", "toString", " Constructor "}

NormInputs == {Undefined} \cup {Str(s) : s \in NormLabels}

NormIdle ==
    /\ nmInput = Undefined
    /\ nmOp = "none"
    /\ nmResult = Undefined
    /\ nmDone = FALSE

NormalizeLangCall ==
    /\ ~nmDone
    /\ nmOp' = "normalizeLang"
    /\ nmResult' = normalizeLang(nmInput)
    /\ nmDone' = TRUE
    /\ UNCHANGED <<nmInput, speechVars, pickVars, recVars>>

LangLabelToTagCall ==
    /\ ~nmDone
    /\ nmOp' = "langLabelToTag"
    /\ nmResult' = langLabelToTag(nmInput)
    /\ nmDone' = TRUE
    /\ UNCHANGED <<nmInput, speechVars, pickVars, recVars>>

(***************************************************************************)
(* Speech recognition                                                      *)
(***************************************************************************)
Handles == {1, 2}

\* A platform result event: the result list and the index of the first result
\* that changed (0-based, as the platform reports it).
Result(t, f) == [transcript |-> t, isFinal |-> f]
EvInterim == [resultIndex |-> 0, results |-> <<Result("he", FALSE)>>]
EvFinal == [resultIndex |-> 0, results |-> <<Result("hello", TRUE)>>]
EvWindow == [resultIndex |-> 1, results |-> <<Result("hello", TRUE), Result(" wor", FALSE)>>]
EvTwo == [resultIndex |-> 0, results |-> <<Result("good ", TRUE), Result("day", FALSE)>>]
RecEvents == {EvInterim, EvFinal, EvWindow, EvTwo}

\* The reason a platform error event carries; "" for an event without one.
ErrorReasons == {"not-allowed", "network", ""}

\* owed: "owed" from a stop() that found a result in flight until onResult is
\* called with isFinal true, then "paid".
NoHandle == [st |-> "none", lang |-> "", onResult |-> FALSE, onError |-> FALSE,
             pend |-> None, owed |-> "none"]

RecNone == [op |-> "none", h |-> 0, arg |-> "", raised |-> FALSE, calls |-> <<>>]
RecStep(op, h, arg, raised, calls) ==
    [op |-> op, h |-> h, arg |-> arg, raised |-> raised, calls |-> calls]

RecIdle ==
    /\ rec = [h \in Handles |-> NoHandle]
    /\ nCaps = 0
    /\ recLast = RecNone

\* The platform has a capture open for the recognizer.
Capturing(r) == r.st \in {"listening", "stopping"}

\* rec.lang = tag || "en-US"
LangOr(tag) == IF tag # "" THEN tag ELSE "en-US"

\* createRecognizer(options) with the platform capability present; the caller
\* then fills the onResult / onError slots or leaves them undefined.
CreateRecognizer ==
    \E h \in Handles, lang \in {"", "ta-IN"}, slots \in BOOLEAN :
        /\ createRecognizer("present") = "handle"
        /\ rec[h].st = "none"
        /\ \A g \in Handles : g < h => rec[g].st # "none"
        /\ rec' = [rec EXCEPT ![h] = [st |-> "idle", lang |-> LangOr(lang),
                                      onResult |-> slots, onError |-> slots,
                                      pend |-> None, owed |-> "none"]]
        /\ recLast' = RecStep("create", h, "", FALSE, <<>>)
        /\ UNCHANGED <<nCaps, speechVars, pickVars, normVars>>

\* rec.start() throws InvalidStateError while the recognizer is started.
StartThrows(r) == Capturing(r)

TryNoCatch(threw) == threw

\* try { ... } catch { }: nothing reaches the caller.
Try(threw) == FALSE

\* wrapper.start()
RecStart ==
    \E h \in Handles :
        /\ rec[h].st # "none"
        /\ IF StartThrows(rec[h])
           THEN /\ UNCHANGED <<rec, nCaps>>
                /\ recLast' = RecStep("start", h, "InvalidStateError", Try(TRUE), <<>>)
           ELSE /\ nCaps < MaxCaptures
                /\ rec' = [rec EXCEPT ![h].st = "listening", ![h].pend = None,
                                      ![h].owed = "none"]
                /\ nCaps' = nCaps + 1
                /\ recLast' = RecStep("start", h, "", Try(FALSE), <<>>)
        /\ UNCHANGED <<speechVars, pickVars, normVars>>

\* The platform method each wrapper method forwards to.
WrapperStop == "rec.stop"
WrapperAbortAsStop == "rec.stop"
WrapperAbort == "rec.abort"

\* rec.stop(): stop listening and return what was heard so far;
\* rec.abort(): stop at once and return nothing. Both are ignored when no
\* capture is open.
Request(method, r) ==
    IF ~Capturing(r) THEN r
    ELSE IF method = "rec.stop"
         THEN [r EXCEPT !.st = "stopping",
                        !.owed = IF r.st = "listening" /\ r.pend # None
                                 THEN "owed" ELSE r.owed]
         ELSE [r EXCEPT !.st = "idle", !.pend = None, !.owed = "none"]

\* wrapper.stop()
RecStop ==
    \E h \in Handles :
        /\ rec[h].st # "none"
        /\ rec' = [rec EXCEPT ![h] = Request(WrapperStop, rec[h])]
        /\ recLast' = RecStep("stop", h, "", FALSE, <<>>)
        /\ UNCHANGED <<nCaps, speechVars, pickVars, normVars>>

\* wrapper.abort()
RecAbort ==
    \E h \in Handles :
        /\ rec[h].st # "none"
        /\ rec' = [rec EXCEPT ![h] = Request(WrapperAbort, rec[h])]
        /\ recLast' = RecStep("abort", h, IF rec[h].pend # None THEN "in flight" ELSE "",
                              FALSE, <<>>)
        /\ UNCHANGED <<nCaps, speechVars, pickVars, normVars>>

\* wrapper.setLang(tag)
RecSetLang ==
    \E h \in Handles, tag \in {"", "ta-IN"} :
        /\ rec[h].st # "none"
        /\ rec' = [rec EXCEPT ![h].lang = LangOr(tag)]
        /\ recLast' = RecStep("setLang", h, tag, FALSE, <<>>)
        /\ UNCHANGED <<nCaps, speechVars, pickVars, normVars>>

\* The platform recognises speech: a result event is in flight.
RecHear ==
    \E h \in Handles, ev \in RecEvents :
        /\ rec[h].st = "listening"
        /\ rec[h].pend = None
        /\ rec' = [rec EXCEPT ![h].pend = Some(ev)]
        /\ recLast' = RecStep("hear", h, "", FALSE, <<>>)
        /\ UNCHANGED <<nCaps, speechVars, pickVars, normVars>>

TranscriptsWhole(results, from) ==
    IF results = <<>> THEN "" ELSE results[Len(results)].transcript

RECURSIVE Transcripts(_, _)
\* for (i = from; i < results.length; i += 1) finalText += results[i][0].transcript
Transcripts(results, from) ==
    IF from >= Len(results) THEN ""
    ELSE results[from + 1].transcript \o Transcripts(results, from + 1)

FinalText(ev) == Transcripts(ev.results, ev.resultIndex)

IsFinalNever(ev) == FALSE

\* if (r.isFinal) isFinal = true, over the same window
IsFinal(ev) ==
    \E i \in (ev.resultIndex + 1)..Len(ev.results) : ev.results[i].isFinal

\* After rec.stop() the platform returns the result it still holds for the last
\* time, so flagged final.
Finalise(ev) ==
    [ev EXCEPT !.results[Len(ev.results)].isFinal = TRUE]

\* wrapper.onResult?.(...) and wrapper.onError?.(...) reach the slots of the wrapper
\* the closure was created with.
OnResultCallFirstWrapper(h, text, isFinal) ==
    [cb |-> "onResult", h |-> 1, text |-> text, isFinal |-> isFinal]
OnResultCall(h, text, isFinal) ==
    [cb |-> "onResult", h |-> h, text |-> text, isFinal |-> isFinal]
OnErrorCall(h, msg) ==
    [cb |-> "onError", h |-> h, text |-> msg, isFinal |-> FALSE]

\* rec.onresult: the platform dispatches the result event in flight.
RecDeliver ==
    \E h \in Handles :
        /\ Capturing(rec[h])
        /\ rec[h].pend # None
        /\ LET held == rec[h].pend[1]
               ev == IF rec[h].st = "stopping" THEN Finalise(held) ELSE held
               calls == IF rec[h].onResult
                        THEN <<OnResultCall(h, FinalText(ev), IsFinal(ev))>>
                        ELSE <<>>
           IN /\ rec' = [rec EXCEPT ![h].pend = None,
                                    ![h].owed = IF /\ rec[h].owed = "owed"
                                                   /\ calls # <<>>
                                                   /\ calls[1].isFinal
                                                THEN "paid" ELSE rec[h].owed]
              /\ recLast' = RecStep("result", h, "", FALSE, calls)
        /\ UNCHANGED <<nCaps, speechVars, pickVars, normVars>>

\* The platform's end event after rec.stop(), once the last result is returned.
RecEnd ==
    \E h \in Handles :
        /\ rec[h].st = "stopping"
        /\ rec[h].pend = None
        /\ rec' = [rec EXCEPT ![h].st = "stopped"]
        /\ recLast' = RecStep("end", h, "", FALSE, <<>>)
        /\ UNCHANGED <<nCaps, speechVars, pickVars, normVars>>

ErrorMsgAlwaysMic(reason) == "mic-error"

\* e?.error || "mic-error"
ErrorMsg(reason) == IF reason # "" THEN reason ELSE "mic-error"

\* rec.onerror: the platform reports a failure and closes the capture.
RecError ==
    \E h \in Handles, reason \in ErrorReasons :
        /\ Capturing(rec[h])
        /\ rec' = [rec EXCEPT ![h].st = "errored", ![h].pend = None]
        /\ recLast' = RecStep("error", h, reason, FALSE,
                              IF rec[h].onError
                              THEN <<OnErrorCall(h, ErrorMsg(reason))>>
                              ELSE <<>>)
        /\ UNCHANGED <<nCaps, speechVars, pickVars, normVars>>

(***************************************************************************)
(* Specifications                                                          *)
(***************************************************************************)
PickIdle ==
    /\ pvVoices = <<>>
    /\ pvHint = ""
    /\ pvGender = "auto"
    /\ pvResult = None
    /\ pvDone = FALSE

SpeechIdle ==
    /\ listening = FALSE
    /\ pollOn = FALSE
    /\ queue = <<>>
    /\ cachedVoices = None
    /\ voicesPromise = NullPromise
    /\ attempts = 0
    /\ sess = [s \in SessIds |-> IdleSession]
    /\ nSess = 0
    /\ waiters = <<>>
    /\ microQ = <<>>
    /\ callers = [c \in CallIds |-> [st |-> "idle", val |-> <<>>, waited |-> FALSE]]
    /\ nCalls = 0
    /\ listenerRegs = 0
    /\ timersStarted = 0
    /\ last = Other

Init ==
    /\ hasSynth \in BOOLEAN
    /\ platVoices \in (IF hasSynth THEN SpeechVoiceLists ELSE {<<>>})
    /\ SpeechIdle
    /\ PickIdle
    /\ NormIdle
    /\ RecIdle

Next ==
    \/ Speak
    \/ SpeakResume
    \/ Stop
    \/ VoicesChanged
    \/ Poll
    \/ PlatformSetVoices(SpeechVoiceLists)
    \/ PlaybackEnd
    \/ PlaybackError

Spec == Init /\ [][Next]_vars

\* Speech output on a platform whose voices are loaded and which does deliver its
\* events: microtasks run, and the utterance at the head of the queue ends or fails.
PlayInit ==
    /\ hasSynth = TRUE
    /\ platVoices = TamilList
    /\ SpeechIdle
    /\ PickIdle
    /\ NormIdle
    /\ RecIdle

PlayNext ==
    \/ Speak
    \/ SpeakResume
    \/ Stop
    \/ PlaybackEnd
    \/ PlaybackError

SpecPlay ==
    /\ PlayInit
    /\ [][PlayNext]_vars
    /\ WF_vars(SpeakResume)
    /\ WF_vars(PlaybackEnd \/ PlaybackError)

VoicesInit ==
    /\ hasSynth \in BOOLEAN
    /\ platVoices \in (IF hasSynth THEN VoiceLists ELSE {<<>>})
    /\ SpeechIdle
    /\ PickIdle
    /\ NormIdle
    /\ RecIdle

VoicesNext ==
    \/ GetVoicesCall
    \/ VoicesChanged
    \/ Poll
    \/ PlatformSetVoices(VoiceLists)

SpecVoices == VoicesInit /\ [][VoicesNext]_vars

PickInit ==
    /\ hasSynth = TRUE
    /\ platVoices = <<>>
    /\ SpeechIdle
    /\ pvVoices \in PickCatalogs
    /\ pvHint \in PickHints
    /\ pvGender \in Genders
    /\ pvResult = None
    /\ pvDone = FALSE
    /\ NormIdle
    /\ RecIdle

\* voices.filter(...) and list.find(...) build their result and leave the array
\* they are called on as it was.
leftByShift(voices) == IF voices = <<>> THEN voices ELSE Tail(voices)
leftByFilter(voices) == voices

PickVoiceCall ==
    /\ ~pvDone
    /\ pvResult' = pickVoice(pvVoices, pvHint, pvGender)
    /\ pvVoices' = leftByFilter(pvVoices)
    /\ pvDone' = TRUE
    /\ UNCHANGED <<pvHint, pvGender, speechVars, normVars, recVars>>

PickNext == PickVoiceCall

SpecPick == PickInit /\ [][PickNext]_vars

NormInit ==
    /\ hasSynth = TRUE
    /\ platVoices = <<>>
    /\ SpeechIdle
    /\ PickIdle
    /\ nmInput \in NormInputs
    /\ nmOp = "none"
    /\ nmResult = Undefined
    /\ nmDone = FALSE
    /\ RecIdle

NormNext ==
    \/ NormalizeLangCall
    \/ LangLabelToTagCall

SpecNorm == NormInit /\ [][NormNext]_vars

\* ensureAudioUnlocked() called by UI code around speak() calls, with and without
\* the speech capability.
UnlockInit ==
    /\ hasSynth \in BOOLEAN
    /\ platVoices = (IF hasSynth THEN TamilList ELSE <<>>)
    /\ SpeechIdle
    /\ PickIdle
    /\ NormIdle
    /\ RecIdle

UnlockNext ==
    \/ Speak
    \/ SpeakResume
    \/ PlaybackEnd
    \/ PlaybackError
    \/ EnsureAudioUnlocked

SpecUnlock == UnlockInit /\ [][UnlockNext]_vars

\* pickVoice and normalizeLang called by UI code while the speech controller and
\* the catalog load are at work.
PureInit ==
    /\ hasSynth = TRUE
    /\ platVoices \in SpeechVoiceLists
    /\ SpeechIdle
    /\ pvVoices = TamilList
    /\ pvHint = "ta-IN"
    /\ pvGender = "female"
    /\ pvResult = None
    /\ pvDone = FALSE
    /\ nmInput = Str(" Tamil ")
    /\ nmOp = "none"
    /\ nmResult = Undefined
    /\ nmDone = FALSE
    /\ RecIdle

PureNext ==
    \/ Speak
    \/ SpeakResume
    \/ VoicesChanged
    \/ PlatformSetVoices(SpeechVoiceLists)
    \/ PlaybackEnd
    \/ PickVoiceCall
    \/ NormalizeLangCall

SpecPure == PureInit /\ [][PureNext]_vars

RecInit ==
    /\ hasSynth = TRUE
    /\ platVoices = <<>>
    /\ SpeechIdle
    /\ PickIdle
    /\ NormIdle
    /\ RecIdle

RecNext ==
    \/ CreateRecognizer
    \/ RecStart
    \/ RecStop
    \/ RecAbort
    \/ RecSetLang
    \/ RecHear
    \/ RecDeliver
    \/ RecEnd
    \/ RecError

SpecRec == RecInit /\ [][RecNext]_vars

(***************************************************************************)
(* Session status, as the design names it                                  *)
(***************************************************************************)
Finished(s) == sess[s].st \in {"resolved", "rejected"}

SessionStatus(s) ==
    CASE sess[s].st = "idle" -> "none"
      [] sess[s].st = "awaitVoices" -> "pending"
      [] sess[s].st = "awaitEnd" ->
            IF queue # <<>> /\ Head(queue).sid = s THEN "speaking" ELSE "pending"
      [] OTHER -> sess[s].outcome

Active == {s \in SessIds : SessionStatus(s) \in {"pending", "speaking"}}

(***************************************************************************)
(* Properties                                                              *)
(***************************************************************************)

\* C1: when speak(B) is called while speak(A) still awaits the catalog and the
\* platform plays what it is given (no playback error, B not cancelled later),
\* A ends cancelled and B ends completed; they never both end completed.
C1_SupersededEndsCancelled ==
    \A a, b \in SessIds :
        ( /\ a < b
          /\ sess[a].superseded
          /\ Finished(a) /\ Finished(b)
          /\ sess[a].outcome # "errored"
          /\ sess[b].outcome \notin {"errored", "cancelled"} )
        => /\ sess[a].outcome = "cancelled"
           /\ sess[b].outcome = "completed"
           /\ ~(sess[a].outcome = "completed" /\ sess[b].outcome = "completed")

\* C2: in every reachable state at most one output session is pending or speaking.
C2_AtMostOneActive == Cardinality(Active) <= 1

\* C3: a session that was current (pending or speaking) at a stop() call ends
\* cancelled and never submits or plays its utterance afterwards.
C3_StopCancelsCurrent ==
    \A s \in SessIds :
        sess[s].stopSeen =>
            /\ s \notin Queued
            /\ sess[s].st # "awaitEnd"
            /\ (Finished(s) => sess[s].outcome = "cancelled")

\* C4: getVoices() calls issued before the catalog is ready share one load: one
\* change-notification listener is registered, one poll timer is started, and the
\* calls that waited are settled together with the identical sequence.
C4_SharedLoad ==
    /\ listenerRegs <= 1
    /\ timersStarted <= 1
    /\ (\E c \in CallIds : callers[c].waited) => (listenerRegs = 1 /\ timersStarted = 1)
    /\ \A c, d \in CallIds :
          (callers[c].waited /\ callers[d].waited)
          => (callers[c].st = callers[d].st /\ callers[c].val = callers[d].val)

C4_Witness ==
    \E c, d \in CallIds :
        /\ c # d
        /\ callers[c].waited /\ callers[d].waited
        /\ callers[c].st = "resolved" /\ callers[d].st = "resolved"
        /\ callers[c].val # <<>>
        /\ listenerRegs = 1 /\ timersStarted = 1

\* C5: with no voices ever found, getVoices() resolves empty when the 10th poll
\* attempt has failed, and no poll is made after that 10th attempt.
C5_GivesUpAtTenthPoll ==
    /\ attempts <= MaxAttempts
    /\ cachedVoices = Some(<<>>) => (attempts = MaxAttempts /\ ~pollOn)

\* C6: once the poll budget is exhausted with no voices the empty outcome stays
\* cached: whatever happens next (getVoices() calls, the platform reporting
\* voices), the cache and the promise keep the empty sequence, every caller holds
\* the empty sequence, no listener is registered and no timer is started.
C6_EmptyOutcomeCached ==
    [][ cachedVoices = Some(<<>>) =>
          /\ cachedVoices' = Some(<<>>)
          /\ voicesPromise' = Resolved(<<>>)
          /\ ~listening' /\ ~pollOn'
          /\ listenerRegs' = listenerRegs
          /\ timersStarted' = timersStarted
          /\ \A c \in CallIds :
                callers'[c].st \in {"idle", "resolved"} /\ callers'[c].val = <<>> ]_vars

C6_Witness ==
    /\ cachedVoices = Some(<<>>)
    /\ platVoices # <<>>
    /\ \E c \in CallIds : ~callers[c].waited /\ callers[c].st = "resolved"

\* C7: with the speech-output capability absent no exposed call throws or yields
\* a rejected future (speak() resolves, canSpeak() is false, getVoices() does not
\* reject), and with recognition absent createRecognizer() returns none.
C7_AbsentNeverRaises ==
    /\ ~hasSynth =>
          /\ canSpeak = FALSE
          /\ \A s \in SessIds : sess[s].st # "rejected"
          /\ voicesPromise.st # "rejected"
          /\ \A c \in CallIds : callers[c].st # "rejected"
    /\ createRecognizer("absent") = "null"

\* C8: speak() never rejects: a session whose utterance got a playback error is
\* resolved, exactly as one whose utterance ended normally.
C8_SpeakNeverRejects ==
    \A s \in SessIds :
        /\ sess[s].st # "rejected"
        /\ sess[s].outcome \in {"errored", "completed"} => sess[s].st = "resolved"

C8_Witness ==
    \E s \in SessIds : sess[s].outcome = "errored" /\ sess[s].st = "resolved"

\* C9: a speak() call made with the capability absent, or with empty or
\* whitespace-only text, resolves at once and changes nothing: no utterance is
\* submitted, no catalog load starts, the active session stays as it was.
C9_NoopSpeak ==
    [][ (last'.op = "speak" /\ (~hasSynth \/ last'.arg = "" \/ trim(last'.arg) = ""))
        => /\ last'.res = "resolved"
           /\ UNCHANGED <<hasSynth, platVoices, listening, pollOn, queue, cachedVoices,
                          voicesPromise, attempts, sess, nSess, waiters, microQ,
                          callers, nCalls, listenerRegs, timersStarted>> ]_vars

C9_Witness ==
    /\ last.op = "speak"
    /\ last.arg = "  "
    /\ last.res = "resolved"
    /\ hasSynth
    /\ queue # <<>>
    /\ voicesPromise.st = "resolved"

\* C10: with preference auto, when the catalog has a voice whose tag has the
\* hint's base language (the part before "-", case-insensitive, a bare "ta"
\* included for hint "ta-IN"), pickVoice returns the first such voice.
SameBase(tag, hint) ==
    toLowerCase(SplitFirst(tag, "-")) = toLowerCase(SplitFirst(hint, "-"))

C10_FirstLanguageMatch ==
    LET hits == SelectSeq(pvVoices, LAMBDA v : SameBase(v.lang, pvHint))
    IN (pvDone /\ pvGender = "auto" /\ pvHint # "" /\ hits # <<>>)
       => pvResult = Some(hits[1])

\* C11: when no voice has the hint's base language and some voice is English-tagged
\* (base "en", with or without a region), pickVoice returns the first English voice
\* of the preferred gender when one is asked and exists, else the first English voice.
IsEnglishTag(tag) == toLowerCase(SplitFirst(tag, "-")) = "en"

PvWanted == IF pvHint # "" THEN pvHint ELSE "en-US"
PvLanguageMatches == SelectSeq(pvVoices, LAMBDA v : SameBase(v.lang, PvWanted))
PvEnglish == SelectSeq(pvVoices, LAMBDA v : IsEnglishTag(v.lang))

C11_EnglishFallback ==
    LET g == SelectSeq(PvEnglish, LAMBDA v : inferGender(v) = pvGender)
    IN (pvDone /\ PvLanguageMatches = <<>> /\ PvEnglish # <<>>)
       => pvResult = IF pvGender # "auto" /\ g # <<>> THEN Some(g[1])
                     ELSE Some(PvEnglish[1])

\* C12: with no voice of the hint's language and no English-tagged voice, pickVoice
\* returns the first voice of the catalog for every hint and preference; for an
\* empty catalog it returns none.
C12_LastResort ==
    pvDone =>
        /\ pvVoices = <<>> => pvResult = None
        /\ (pvVoices # <<>> /\ PvLanguageMatches = <<>> /\ PvEnglish = <<>>)
           => pvResult = Some(pvVoices[1])

C12_Witness ==
    /\ pvDone
    /\ Len(pvVoices) = 2
    /\ pvGender = "male"
    /\ pvHint = "de-DE"
    /\ PvLanguageMatches = <<>> /\ PvEnglish = <<>>
    /\ inferGender(pvVoices[2]) = "male"
    /\ pvResult = Some(pvVoices[1])

\* C13: normalizeLang returns the unspecified value for every input that is "auto"
\* up to letter casing and surrounding whitespace.
C13_AutoUnspecified ==
    (nmDone /\ nmInput.kind = "string" /\ toLowerCase(trim(nmInput.val)) = "auto")
        => nmResult = Undefined

C13_Witness ==
    /\ nmDone
    /\ nmOp = "normalizeLang"
    /\ nmInput = Str(" Auto ")
    /\ nmResult = Undefined

\* C14: an input that already has the locale-tag shape and is not a table label
\* is returned unchanged, case preserved.
C14_TagPassthrough ==
    (nmDone /\ nmInput.kind = "string" /\ IsTagShape(nmInput.val)
            /\ nmInput.val \notin DOMAIN LANG_TO_TAG)
        => nmResult = nmInput

\* C15: a label that after trimming and lower-casing is a table key other than
\* "auto" yields exactly that key's tag, whether or not it is tag-shaped.
C15_TableLabel ==
    LET key == toLowerCase(trim(nmInput.val))
    IN (nmDone /\ nmInput.kind = "string" /\ key \in DOMAIN LANG_TO_TAG \ {"auto"})
        => nmResult = Str(LANG_TO_TAG[key])

C15_Witness ==
    /\ nmDone
    /\ nmOp = "normalizeLang"
    /\ nmInput = Str(" Tamil ")
    /\ nmResult = Str("ta-IN")

\* C16: normalizeLang and langLabelToTag return a string tag or the unspecified
\* value for every input, and the unspecified value for an input that is neither
\* "auto", nor a table label, nor tag-shaped (before or after trimming and
\* lower-casing).
NoRuleApplies(input) ==
    \/ ~Truthy(input)
    \/ LET key == toLowerCase(trim(input.val))
       IN /\ key \notin DOMAIN LANG_TO_TAG
          /\ ~IsTagShape(key)
          /\ ~IsTagShape(input.val)

C16_Total ==
    nmDone =>
        /\ nmResult.kind \in {"undefined", "string"}
        /\ NoRuleApplies(nmInput) => nmResult = Undefined

\* C17: start() on a handle that is listening raises nothing to the caller, invokes
\* no callback, begins no further capture and leaves the handle listening.
C17_StartWhileListening ==
    [][\A h \in Handles :
          (recLast'.op = "start" /\ recLast'.h = h /\ rec[h].st = "listening")
              => /\ ~recLast'.raised
                 /\ recLast'.calls = <<>>
                 /\ nCaps' = nCaps
                 /\ rec'[h].st = "listening"]_vars

C17_Witness ==
    /\ recLast.op = "start"
    /\ recLast.arg = "InvalidStateError"
    /\ ~recLast.raised
    /\ rec[recLast.h].st = "listening"
    /\ rec[recLast.h].onError

\* C18: abort() on a listening handle brings the session to idle, discarding the
\* result in flight, and while the session is idle no onResult is invoked for it.
CallsFor(calls, h, cb) == SelectSeq(calls, LAMBDA c : c.h = h /\ c.cb = cb)

C18_AbortDiscards ==
    [][\A h \in Handles :
          /\ (recLast'.op = "abort" /\ recLast'.h = h /\ rec[h].st = "listening")
                 => /\ rec'[h].st = "idle"
                    /\ rec'[h].pend = None
                    /\ recLast'.calls = <<>>
          /\ (rec[h].st = "idle" /\ recLast' # recLast)
                 => CallsFor(recLast'.calls, h, "onResult") = <<>>]_vars

C18_Witness ==
    /\ recLast.op = "abort"
    /\ recLast.arg = "in flight"
    /\ rec[recLast.h].st = "idle"
    /\ rec[recLast.h].onResult
    /\ rec[recLast.h].pend = None

\* C19: a handle with an onResult callback that was stopped with a result in flight
\* has had that result delivered with isFinal true by the time it is stopped, and
\* no onResult is invoked for a stopped handle.
C19_StopDeliversLast ==
    /\ [](\A h \in Handles :
             (rec[h].st = "stopped" /\ rec[h].onResult) => rec[h].owed # "owed")
    /\ [][\A h \in Handles :
             (rec[h].st = "stopped" /\ recLast' # recLast)
                 => CallsFor(recLast'.calls, h, "onResult") = <<>>]_vars

C19_Witness ==
    \E h \in Handles :
        /\ rec[h].st = "stopped"
        /\ rec[h].onResult
        /\ rec[h].owed = "paid"

\* C20: each platform error event invokes onError exactly once, with the event's
\* reason or "mic-error" when it has none, or nothing when no onError is set; it
\* raises nothing, begins no capture and leaves the handle not capturing.
C20_ErrorDelivered ==
    [][(recLast'.op = "error" /\ recLast' # recLast)
          => LET h == recLast'.h
                 reason == recLast'.arg
             IN /\ recLast'.calls =
                       IF rec[h].onError
                       THEN <<OnErrorCall(h, IF reason # "" THEN reason ELSE "mic-error")>>
                       ELSE <<>>
                /\ ~recLast'.raised
                /\ nCaps' = nCaps
                /\ rec'[h].st = "errored"]_vars

C20_Witness ==
    /\ recLast.op = "error"
    /\ recLast.arg = ""
    /\ recLast.calls = <<OnErrorCall(recLast.h, "mic-error")>>
    /\ rec[recLast.h].st = "errored"

\* C21: once a catalog load has been won with a non-empty voice list, neither path
\* is live any more: the poll timer is cleared and the notification listener is
\* removed.
C21_WinnerCancelsOther ==
    (voicesPromise.st = "resolved" /\ voicesPromise.val # <<>>)
        => (~pollOn /\ ~listening)

\* C22: the catalog is empty (no promise), loading (pending) or ready (settled) and
\* only moves forward; a non-empty cached voice sequence is never replaced.
CatalogRank ==
    IF voicesPromise.st = "null" THEN 0
    ELSE IF voicesPromise.st = "pending" THEN 1
    ELSE 2

C22_ReadyNeverReplaced ==
    [][/\ CatalogRank' >= CatalogRank
       /\ (cachedVoices # None /\ cachedVoices[1] # <<>>) => cachedVoices' = cachedVoices]_vars

\* C23: a first getVoices() call that finds a non-empty platform voice list returns
\* a promise resolved with that list and caches it, without registering the listener
\* or starting the poll timer.
C23_ImmediateResolve ==
    [][(nCalls = 0 /\ nCalls' = 1 /\ hasSynth /\ platVoices # <<>>)
          => /\ callers'[1].st = "resolved"
             /\ callers'[1].val = platVoices
             /\ cachedVoices' = Some(platVoices)
             /\ listenerRegs' = 0 /\ timersStarted' = 0
             /\ ~listening' /\ ~pollOn']_vars

C23_Witness ==
    /\ nCalls >= 1
    /\ callers[1].st = "resolved"
    /\ ~callers[1].waited
    /\ callers[1].val # <<>>
    /\ cachedVoices = Some(callers[1].val)
    /\ listenerRegs = 0 /\ timersStarted = 0

\* C24: the future of a speak() whose utterance is with the platform is settled only
\* by the step in which the platform reports the end or an error of that utterance
\* and takes it off its queue; on a platform that delivers these events every such
\* future is eventually resolved.
C24_ResolvesOnPlatformEvent ==
    /\ [][\A s \in SessIds :
             (sess[s].st = "awaitEnd" /\ sess'[s].st # "awaitEnd")
                 => /\ sess'[s].st = "resolved"
                    /\ s \in Queued /\ s \notin {queue'[i].sid : i \in DOMAIN queue'}
                    /\ sess'[s].outcome \in {"completed", "errored", "cancelled"}]_vars
    /\ \A s \in SessIds : (sess[s].st = "awaitEnd") ~> (sess[s].st = "resolved")

C24_Witness ==
    \E s \in SessIds :
        /\ sess[s].st = "resolved"
        /\ sess[s].outcome = "errored"
        /\ s \notin Queued

\* C25: utterances are submitted in the order of their speak() calls: when a call
\* submits its utterance, no earlier call is still waiting for the catalog.
C25_SubmitInCallOrder ==
    [][\A b \in SessIds :
          (sess[b].st = "awaitVoices" /\ sess'[b].st = "awaitEnd")
              => \A a \in 1..(b - 1) : sess[a].st \in {"awaitEnd", "resolved"}]_vars

C25_Witness ==
    /\ nSess >= 2
    /\ sess[1].superseded
    /\ sess[1].st \in {"awaitEnd", "resolved"}
    /\ sess[2].st = "awaitEnd"

\* C26: with preference male or female, when the voices of the hint's language
\* include one of the preferred gender, pickVoice returns the first of them; a
\* voice of unknown gender is returned only when no voice of that set has the
\* preferred gender.
PvGenderMatches == SelectSeq(PvLanguageMatches, LAMBDA v : inferGender(v) = pvGender)

C26_FirstGenderMatch ==
    (pvDone /\ pvGender \in {"male", "female"} /\ PvLanguageMatches # <<>>)
        => /\ PvGenderMatches # <<>> => pvResult = Some(PvGenderMatches[1])
           /\ (pvResult # None /\ inferGender(pvResult[1]) = "auto")
                  => PvGenderMatches = <<>>

\* C27: when some voice has the hint's language, pickVoice returns one of those
\* voices whatever the gender preference, and the first of them when none has the
\* preferred gender.
C27_LanguageBeforeGender ==
    (pvDone /\ PvLanguageMatches # <<>>)
        => /\ pvResult # None
           /\ \E i \in DOMAIN PvLanguageMatches : pvResult[1] = PvLanguageMatches[i]
           /\ (pvGender # "auto" /\ PvGenderMatches = <<>>)
                  => pvResult = Some(PvLanguageMatches[1])

\* C28: a call of pickVoice or normalizeLang leaves the catalog cache, the catalog
\* load in flight, the utterance queue, the speak() sessions and its own arguments
\* as they were, and its result for given arguments is the same in whatever state
\* the call is made.
C28_Pure ==
    /\ [][((~pvDone /\ pvDone') \/ (~nmDone /\ nmDone'))
             => /\ cachedVoices' = cachedVoices
                /\ voicesPromise' = voicesPromise
                /\ waiters' = waiters /\ microQ' = microQ
                /\ queue' = queue
                /\ sess' = sess
                /\ pvVoices' = pvVoices
                /\ nmInput' = nmInput]_vars
    /\ [](pvDone => pvResult = Some(Voice("Vani Female", "ta-IN")))
    /\ [](nmDone => nmResult = Str("ta-IN"))

C28_Witness ==
    /\ pvDone /\ nmDone
    /\ pvVoices = TamilList
    /\ cachedVoices = Some(TamilList)
    /\ voicesPromise.st = "resolved"
    /\ \E s \in SessIds : sess[s].st = "awaitEnd"

\* C29: each result event the platform dispatches to a handle with an onResult
\* callback invokes it exactly once, with the transcripts of the results from the
\* event's start index to the end of its list joined in index order, and with
\* isFinal true exactly when one of those results is final.
RECURSIVE WindowText(_, _, _)
WindowText(ev, i, acc) ==
    IF i > Len(ev.results) THEN acc
    ELSE WindowText(ev, i + 1, acc \o ev.results[i].transcript)

C29_ResultWindow ==
    [][(recLast'.op = "result" /\ recLast' # recLast)
          => LET h == recLast'.h
                 ev == IF rec[h].st = "stopping" THEN Finalise(rec[h].pend[1])
                       ELSE rec[h].pend[1]
                 window == (ev.resultIndex + 1)..Len(ev.results)
             IN rec[h].onResult
                    => recLast'.calls =
                           <<OnResultCall(h, WindowText(ev, ev.resultIndex + 1, ""),
                                          \E i \in window : ev.results[i].isFinal)>>]_vars

C29_Witness ==
    /\ recLast.op = "result"
    /\ \/ recLast.calls = <<OnResultCall(recLast.h, " wor", FALSE)>>
       \/ recLast.calls = <<OnResultCall(recLast.h, "good day", TRUE)>>

\* C30: a recognition session only moves idle -> listening, listening -> stopped,
\* listening -> errored and listening -> idle; a stopped or errored session stays
\* as it is, also when start() is called on its handle.
SessionOf(r) == IF r.st = "stopping" THEN "listening" ELSE r.st

RecTransitions ==
    {<<"none", "idle">>, <<"idle", "listening">>, <<"listening", "stopped">>,
     <<"listening", "errored">>, <<"listening", "idle">>}

C30_TerminalStates ==
    [][\A h \in Handles :
          \/ SessionOf(rec'[h]) = SessionOf(rec[h])
          \/ <<SessionOf(rec[h]), SessionOf(rec'[h])>> \in RecTransitions]_vars

\* C31: a wrapper method call or a platform event on one handle leaves the session
\* status, language and callback slots of every other handle as they were and
\* invokes only callbacks of that handle.
C31_HandlesIndependent ==
    [][recLast' # recLast
          => LET h == recLast'.h
             IN /\ \A g \in Handles \ {h} :
                      /\ rec'[g].st = rec[g].st
                      /\ rec'[g].lang = rec[g].lang
                      /\ rec'[g].onResult = rec[g].onResult
                      /\ rec'[g].onError = rec[g].onError
                      /\ rec'[g].pend = rec[g].pend
                /\ \A i \in DOMAIN recLast'.calls : recLast'.calls[i].h = h]_vars

C31_Witness ==
    /\ recLast.op = "result"
    /\ recLast.h = 2
    /\ recLast.calls # <<>>
    /\ rec[1].st = "listening"
    /\ rec[1].onResult
    /\ rec[1].pend # None
    /\ rec[1].lang # rec[2].lang

\* C32: ensureAudioUnlocked() leaves the platform's utterance queue empty, every
\* speak() session whose utterance was with the platform is cancelled and its
\* future resolved by that call, and the call itself is fulfilled, never raised.
C32_UnlockCancelsAll ==
    [][last'.op = "unlock"
          => /\ queue' = <<>>
             /\ last'.res = "resolved"
             /\ \A s \in SessIds :
                    sess[s].st = "awaitEnd"
                        => /\ sess'[s].st = "resolved"
                           /\ sess'[s].outcome = "cancelled"]_vars

C32_Witness ==
    /\ last.op = "unlock"
    /\ nSess = 1
    /\ sess[1].st = "resolved"
    /\ sess[1].outcome = "cancelled"
    /\ queue = <<>>

====
